---------------------------- MODULE Spec2Model ----------------------------
(***************************************************************************)
(* Bookii: a client-side PDF library (App.tsx) and reader (PdfReader.tsx). *)
(*                                                                         *)
(* The Library View, the Reader View and the per-page render component are *)
(* modelled as one state machine.  Every handler is cut at its awaits: the *)
(* code between two awaits is one action.  The record store (dbService),   *)
(* the extraction services (pdfService) and the summarizer (geminiService) *)
(* are not part of the sources; they are modelled from the specification   *)
(* as asynchronous operations that may succeed or fail.                    *)
(***************************************************************************)
EXTENDS Integers, Sequences, FiniteSets, TLC

(***************************************************************************)
(* Bounds of the model.                                                    *)
(***************************************************************************)
MaxIds == 2          \* identifiers the generator can hand out (uploads)
MaxAlerts == 1       \* alerts recorded in alertLog
MaxClock == 1        \* readings of Date.now()
MaxQueue == 2        \* store requests in flight
MaxWrites == 2       \* updateLastPage requests in flight
MaxZoomSteps == 1    \* zoom steps away from the initial scale (windowed specifications)
MaxPages == 2        \* pages of the largest document
MaxRenders == 2      \* renderPage calls and render tasks in flight
MaxTitleLen == 2     \* characters of a title        (filter specification)
MaxQueryLen == 2     \* characters of a search query (filter specification)
MaxBooks == 1        \* books of the list            (filter specification)

(***************************************************************************)
(* Values.                                                                 *)
(***************************************************************************)
Undef == "undefined"                    \* an optional field left unset
Ids == 1..MaxIds                        \* opaque identifiers
NoId == 0
Pages == 1..MaxPages
PdfMime == "application/pdf"

\* The zoom scale, kept in tenths (1.0 is 10).
ScaleInit == 10
ScaleStep == 2
ScaleMax == 30
ScaleMin == 4

Min(a, b) == IF a <= b THEN a ELSE b
Max(a, b) == IF a >= b THEN a ELSE b

\* Letters of file names, titles and queries: one in both cases and a
\* second one.  A file name also holds the dot that starts its extension.
Letters == {"a", "A", "b"}

SeqsUpTo(S, n) == UNION {[1..k -> S] : k \in 0..n}

VARIABLES
  \* ---- Record Store (services/dbService) and its requests in flight
  store,            \* set of persisted Book records
  dbQueue,          \* requests issued and not yet settled, oldest first
  \* ---- App (App.tsx)
  books,            \* useState<Book[]>
  currentBook,      \* useState<Book | null>
  isUploading,      \* useState(false)
  searchQuery,      \* useState('')
  showOnlyMarked,   \* useState(false)
  up,               \* the handleFileUpload call in progress
  issued,           \* identifiers the generator has returned
  clock,            \* Date.now()
  alertLog,         \* alert() calls, oldest first
  saveCalls,        \* number of saveBook calls made
  \* ---- PdfReader (PdfReader.tsx)
  numPages, currentPage, loading, scale, showControls, pdfDoc,
  initialScrollDone,
  loadPc,           \* loadPdf: "pending" until its promise settles
  visible,          \* pages intersecting the viewport (threshold 0.1)
  initialScrollPage,\* the page the initial-scroll effect scrolled to, 0 for none
  initialScrolls,   \* scrollIntoView calls made by the initial-scroll effect
  lastNav,          \* scrollToPage's most recent target and whether its element exists
  \* ---- PdfPage, one per page
  renderTaskRef,    \* page -> index into running[page] of renderTaskRef.current;
                    \*   0 when it is null or its task has settled (cancel() does nothing)
  pendingRenders,   \* page -> renderPage calls awaiting getPage (their scale)
  running,          \* page -> scales of the render tasks drawing, oldest first
  canvas,           \* page -> [size, drawn]: the scale it was last sized for, and
                    \*   the scale of the render completed on it since (0 for
                    \*   none, Damaged for more than one render or for a render
                    \*   the canvas was resized under)
  obsPending        \* page -> a new observer has not yet reported

dbVars == <<store, dbQueue>>
appVars == <<books, currentBook, isUploading, searchQuery, showOnlyMarked, up,
             issued, clock, alertLog, saveCalls>>
readerVars == <<numPages, currentPage, loading, scale, showControls, pdfDoc,
                initialScrollDone, loadPc, visible, initialScrollPage,
                initialScrolls, lastNav>>
pageVars == <<renderTaskRef, pendingRenders, running, canvas, obsPending>>
vars == <<dbVars, appVars, readerVars, pageVars>>

(***************************************************************************)
(* types.ts: Book.  blob is the file's content, abstracted to the number   *)
(* of pages the PDF in it has.                                             *)
(***************************************************************************)
Book(id, title, fileName, blob, thumbnail, lastPage, addedAt, summary, isMarked) ==
  [id |-> id, title |-> title, fileName |-> fileName, blob |-> blob,
   thumbnail |-> thumbnail, lastPage |-> lastPage, addedAt |-> addedAt,
   summary |-> summary, isMarked |-> isMarked]

NoBook == Book(NoId, <<>>, <<>>, 0, Undef, 0, 0, Undef, FALSE)

(***************************************************************************)
(* Record Store, modelled from the specification (4.1): insert-or-replace  *)
(* keyed by identifier, list-all, delete-by-identifier, update of the      *)
(* last-page field, toggle of the marked flag.                             *)
(***************************************************************************)
StorePut(s, b) == {r \in s : r.id # b.id} \cup {b}
StoreDelete(s, id) == {r \in s : r.id # id}
StoreUpdateLastPage(s, id, p) ==
  {IF r.id = id THEN [r EXCEPT !.lastPage = p] ELSE r : r \in s}
StoreToggleMark(s, id) ==
  {IF r.id = id THEN [r EXCEPT !.isMarked = ~r.isMarked] ELSE r : r \in s}

RECURSIVE ListOf(_)
ListOf(s) ==
  IF s = {} THEN <<>>
  ELSE LET r == CHOOSE x \in s : \A y \in s : x.id <= y.id
       IN <<r>> \o ListOf(s \ {r})
StoreGetAll(s) == ListOf(s)

\* A request to the store: who waits for it decides what runs when it settles.
Req(op, from, id, book, page) ==
  [op |-> op, from |-> from, id |-> id, book |-> book, page |-> page]


(***************************************************************************)
(* Files the picker can hand to handleFileUpload: their name, MIME type    *)
(* and content.                                                            *)
(***************************************************************************)
Files ==
  { [name |-> <<"A", "b", ".", "a">>, type |-> PdfMime,     pages |-> 2],
    [name |-> <<"a", ".", "b">>,      type |-> "image/png", pages |-> 0],
    [name |-> <<"b", ".", "a">>,      type |-> "",          pages |-> 0] }

\* file.name.replace(/\.[^/.]+$/, ""): drop a final ".ext" whose ext is not
\* empty and holds no dot.
StripExt(name) ==
  LET dots == {i \in 1..Len(name) :
                 /\ name[i] = "."
                 /\ i < Len(name)
                 /\ \A j \in (i+1)..Len(name) : name[j] # "."}
  IN IF dots = {} THEN name
     ELSE SubSeq(name, 1, (CHOOSE i \in dots : TRUE) - 1)

\* crypto.randomUUID() (or the Math.random/Date.now fallback): the values a
\* call can return.  The generator's contract is that it never returns a
\* value it has returned before.
RandomUUID(used) == Ids \ used

\* The record handleFileUpload builds.
NewBookPageZero(id, title, file, thumbnail, summary, now) ==
  Book(id, title, file.name, file.pages, thumbnail, 0, now, summary, FALSE)
NewBook(id, title, file, thumbnail, summary, now) ==
  Book(id, title, file.name, file.pages, thumbnail, 1, now, summary, FALSE)

IdleUp ==
  [pc |-> "idle", file |-> [name |-> <<>>, type |-> "", pages |-> 0],
   id |-> NoId, title |-> <<>>, thumbnail |-> Undef, summary |-> Undef,
   thumbOk |-> FALSE, summaryOk |-> FALSE, startedAt |-> 0, newBook |-> NoBook]

\* The books shown as cards.
ToLower(c) == IF c = "A" THEN "a" ELSE c
LowerCase(str) == [i \in 1..Len(str) |-> ToLower(str[i])]
\* String.prototype.includes
Includes(str, sub) ==
  \E i \in 0..(Len(str) - Len(sub)) :
    \A j \in 1..Len(sub) : str[i + j] = sub[j]
MatchesSearchExactCase(b, query) == Includes(b.title, query)
MatchesSearch(b, query) == Includes(LowerCase(b.title), LowerCase(query))
MatchesMarked(b, onlyMarked) == IF onlyMarked THEN b.isMarked ELSE TRUE
FilterPredicate(b, query, onlyMarked) ==
  MatchesSearch(b, query) /\ MatchesMarked(b, onlyMarked)
filteredBooks == SelectSeq(books, LAMBDA b : FilterPredicate(b, searchQuery, showOnlyMarked))
Range(seq) == {seq[i] : i \in 1..Len(seq)}

(***************************************************************************)
(* App: loadLibrary.  The call issues getAllBooks; the list is replaced    *)
(* when the request settles with success, and left as it is (the error is  *)
(* logged) when it fails.                                                  *)
(***************************************************************************)
LoadLibraryCall(queue, from) == Append(queue, Req("getAll", from, NoId, NoBook, 0))

(***************************************************************************)
(* App: handleFileUpload, from the file picker's change event to the first *)
(* await.  The picker is opened by a button that is disabled while         *)
(* isUploading.                                                            *)
(***************************************************************************)
UploadNoFile ==
  /\ ~isUploading
  /\ UNCHANGED vars

\* The check of line 36.
IsPdfIfTyped(file) == file.type # ""
IsPdf(file) == file.type = PdfMime

UploadReject(file) ==
  /\ ~isUploading
  /\ ~IsPdf(file)
  /\ Len(alertLog) < MaxAlerts
  /\ alertLog' = Append(alertLog, "invalid")
  /\ UNCHANGED <<dbVars, books, currentBook, isUploading, searchQuery,
                 showOnlyMarked, up, issued, clock, saveCalls,
                 readerVars, pageVars>>

UploadStart(file) ==
  /\ ~isUploading
  /\ IsPdf(file)
  /\ Len(alertLog) < MaxAlerts
  /\ \E id \in RandomUUID(issued) :
       /\ issued' = issued \cup {id}
       /\ up' = [IdleUp EXCEPT !.pc = "thumbnail", !.file = file, !.id = id,
                               !.title = StripExt(file.name),
                               !.startedAt = clock]
  /\ isUploading' = TRUE
  /\ UNCHANGED <<dbVars, books, currentBook, searchQuery, showOnlyMarked,
                 clock, alertLog, saveCalls, readerVars, pageVars>>

HandleFileUpload ==
  \/ UploadNoFile
  \/ \E file \in Files : UploadReject(file)
  \/ \E file \in Files : UploadStart(file)

\* generateThumbnail settles: a failure is logged and leaves thumbnail unset.
ThumbnailSettle ==
  /\ up.pc = "thumbnail"
  /\ \E ok \in BOOLEAN :
       up' = [up EXCEPT !.pc = "extract", !.thumbOk = ok,
                        !.thumbnail = IF ok THEN "img" ELSE Undef]
  /\ UNCHANGED <<dbVars, books, currentBook, isUploading, searchQuery,
                 showOnlyMarked, issued, clock, alertLog, saveCalls,
                 readerVars, pageVars>>

\* Lines 66-78: build the record and call saveBook.
BuildAndSave(u) ==
  LET nb == NewBook(u.id, u.title, u.file, u.thumbnail, u.summary, clock)
  IN /\ Len(dbQueue) < MaxQueue
     /\ up' = [u EXCEPT !.pc = "saving", !.newBook = nb]
     /\ dbQueue' = Append(dbQueue, Req("save", "upload", nb.id, nb, 0))
     /\ saveCalls' = saveCalls + 1
     /\ UNCHANGED <<store, books, currentBook, isUploading, searchQuery,
                    showOnlyMarked, issued, clock, alertLog,
                    readerVars, pageVars>>

\* extractTextForSummary settles: with text, getBookSummary is called; with
\* no text or a failure there is no summary and the record is saved.
ExtractSettle ==
  /\ up.pc = "extract"
  /\ \/ /\ up' = [up EXCEPT !.pc = "summary"]
        /\ UNCHANGED <<dbVars, books, currentBook, isUploading, searchQuery,
                       showOnlyMarked, issued, clock, alertLog, saveCalls,
                       readerVars, pageVars>>
     \/ BuildAndSave(up)

\* getBookSummary settles.
SummarySettle ==
  /\ up.pc = "summary"
  /\ \E ok \in BOOLEAN :
       BuildAndSave([up EXCEPT !.summaryOk = ok,
                               !.summary = IF ok THEN "sum" ELSE Undef])

\* The finally block of handleFileUpload.
UploadFinallyKeepsFlag ==
  /\ isUploading' = isUploading
  /\ up' = IdleUp
UploadFinally ==
  /\ isUploading' = FALSE
  /\ up' = IdleUp

\* saveBook settles.  Success: loadLibrary is called.  Failure: the catch
\* block alerts, and the upload ends.
SaveBookSettle ==
  /\ dbQueue # <<>>
  /\ Head(dbQueue).op = "save"
  /\ \/ /\ store' = StorePut(store, Head(dbQueue).book)
        /\ dbQueue' = LoadLibraryCall(Tail(dbQueue), "upload")
        /\ up' = [up EXCEPT !.pc = "reload"]
        /\ UNCHANGED <<isUploading, alertLog>>
     \/ /\ dbQueue' = Tail(dbQueue)
        /\ alertLog' = Append(alertLog, "failed")
        /\ UploadFinally
        /\ UNCHANGED store
  /\ UNCHANGED <<books, currentBook, searchQuery, showOnlyMarked, issued,
                 clock, saveCalls, readerVars, pageVars>>

\* getAllBooks settles for a loadLibrary call; the upload that awaited it ends.
GetAllBooksSettle ==
  /\ dbQueue # <<>>
  /\ Head(dbQueue).op = "getAll"
  /\ dbQueue' = Tail(dbQueue)
  /\ \/ books' = StoreGetAll(store)
     \/ UNCHANGED books
  /\ IF Head(dbQueue).from = "upload"
       THEN UploadFinally
       ELSE UNCHANGED <<isUploading, up>>
  /\ UNCHANGED <<store, currentBook, searchQuery, showOnlyMarked, issued,
                 clock, alertLog, saveCalls, readerVars, pageVars>>

(***************************************************************************)
(* App: handleDeleteBook and handleToggleMark, on a displayed card.  The   *)
(* Reader overlay covers the library while a book is open.                 *)
(***************************************************************************)
HandleDeleteBook ==
  /\ currentBook = NoBook
  /\ Len(dbQueue) < MaxQueue
  /\ \E b \in Range(filteredBooks) :
       \/ dbQueue' = Append(dbQueue, Req("delete", "delete", b.id, NoBook, 0))
       \/ UNCHANGED dbQueue          \* window.confirm answered no
  /\ UNCHANGED <<store, appVars, readerVars, pageVars>>

HandleToggleMark ==
  /\ currentBook = NoBook
  /\ Len(dbQueue) < MaxQueue
  /\ \E b \in Range(filteredBooks) :
       dbQueue' = Append(dbQueue, Req("toggle", "toggle", b.id, NoBook, 0))
  /\ UNCHANGED <<store, appVars, readerVars, pageVars>>

\* deleteBook / toggleMarkBook settle: on success loadLibrary is called.
DeleteBookSettle ==
  /\ dbQueue # <<>>
  /\ Head(dbQueue).op = "delete"
  /\ \/ /\ store' = StoreDelete(store, Head(dbQueue).id)
        /\ dbQueue' = LoadLibraryCall(Tail(dbQueue), "delete")
     \/ /\ dbQueue' = Tail(dbQueue)
        /\ UNCHANGED store
  /\ UNCHANGED <<appVars, readerVars, pageVars>>

ToggleMarkSettle ==
  /\ dbQueue # <<>>
  /\ Head(dbQueue).op = "toggle"
  /\ \/ /\ store' = StoreToggleMark(store, Head(dbQueue).id)
        /\ dbQueue' = LoadLibraryCall(Tail(dbQueue), "toggle")
     \/ /\ dbQueue' = Tail(dbQueue)
        /\ UNCHANGED store
  /\ UNCHANGED <<appVars, readerVars, pageVars>>

\* Time passes; Date.now() is read only by an upload.
Tick ==
  /\ isUploading
  /\ clock < MaxClock
  /\ clock' = clock + 1
  /\ UNCHANGED <<dbVars, books, currentBook, isUploading, searchQuery,
                 showOnlyMarked, up, issued, alertLog, saveCalls,
                 readerVars, pageVars>>

(***************************************************************************)
(* The Reader and its pages while no book is open.                         *)
(***************************************************************************)
NoNav == [target |-> 0, found |-> FALSE]
Damaged == -1
BlankCanvas == [size |-> 0, drawn |-> 0]
ReaderClosed ==
  /\ numPages = 0 /\ currentPage = 1 /\ loading = TRUE /\ scale = ScaleInit
  /\ showControls = TRUE /\ pdfDoc = FALSE /\ initialScrollDone = FALSE
  /\ loadPc = "closed" /\ visible = {}
  /\ initialScrollPage = 0 /\ initialScrolls = 0 /\ lastNav = NoNav
  /\ renderTaskRef = [p \in Pages |-> 0]
  /\ pendingRenders = [p \in Pages |-> <<>>]
  /\ running = [p \in Pages |-> <<>>]
  /\ canvas = [p \in Pages |-> BlankCanvas]
  /\ obsPending = [p \in Pages |-> FALSE]

(***************************************************************************)
(* The Library View: the app after mounting on an empty store, its first   *)
(* loadLibrary call in flight.                                             *)
(***************************************************************************)
InitLibrary ==
  /\ store = {}
  /\ dbQueue = LoadLibraryCall(<<>>, "mount")
  /\ books = <<>> /\ currentBook = NoBook /\ isUploading = FALSE
  /\ searchQuery = <<>> /\ showOnlyMarked = FALSE
  /\ up = IdleUp /\ issued = {} /\ clock = 0 /\ alertLog = <<>>
  /\ saveCalls = 0
  /\ ReaderClosed

NextLibrary ==
  \/ HandleFileUpload
  \/ ThumbnailSettle
  \/ ExtractSettle
  \/ SummarySettle
  \/ SaveBookSettle
  \/ GetAllBooksSettle
  \/ HandleDeleteBook
  \/ HandleToggleMark
  \/ DeleteBookSettle
  \/ ToggleMarkSettle
  \/ Tick

SpecLibrary == InitLibrary /\ [][NextLibrary]_vars

\* Uploads alone: no card is deleted or marked.
NextUpload ==
  \/ HandleFileUpload
  \/ ThumbnailSettle
  \/ ExtractSettle
  \/ SummarySettle
  \/ SaveBookSettle
  \/ GetAllBooksSettle
  \/ Tick

SpecUpload == InitLibrary /\ [][NextUpload]_vars


(***************************************************************************)
(* PdfReader.                                                              *)
(***************************************************************************)
\* useState(book.lastPage || 1), and the page the initial scroll looks up.
InitialPage(book) == IF book.lastPage = 0 THEN 1 ELSE book.lastPage

\* The page elements in the document: PdfPage components are rendered when
\* loading is false and pdfDoc is set, one per page.
PageElExists(p, ld, doc, n) == ~ld /\ doc /\ p \in 1..n

\* The effect on [loading, pdfDoc, book.lastPage], run after a render in
\* which one of them changed.  It reads the new loading, pdfDoc and numPages.
InitialScrollToFirst ==
  LET n == InitialPage(currentBook)
  IN IF /\ (loading' # loading \/ pdfDoc' # pdfDoc)
        /\ ~loading' /\ pdfDoc' /\ ~initialScrollDone
        /\ PageElExists(n, loading', pdfDoc', numPages')
     THEN /\ initialScrollPage' = 1
          /\ initialScrolls' = initialScrolls + 1
          /\ initialScrollDone' = TRUE
     ELSE UNCHANGED <<initialScrollPage, initialScrolls, initialScrollDone>>
InitialScrollEffect ==
  LET n == InitialPage(currentBook)
  IN IF /\ (loading' # loading \/ pdfDoc' # pdfDoc)
        /\ ~loading' /\ pdfDoc' /\ ~initialScrollDone
        /\ PageElExists(n, loading', pdfDoc', numPages')
     THEN /\ initialScrollPage' = n
          /\ initialScrolls' = initialScrolls + 1
          /\ initialScrollDone' = TRUE
     ELSE UNCHANGED <<initialScrollPage, initialScrolls, initialScrollDone>>

\* loadPdf settles.  With the document, the pages mount and each page's
\* effect creates its observer.
LoadPdfSettle ==
  /\ loadPc = "pending"
  /\ \/ /\ pdfDoc' = TRUE
        /\ numPages' = currentBook.blob
        /\ loading' = FALSE
        /\ loadPc' = "done"
        /\ obsPending' = [p \in Pages |-> p <= currentBook.blob]
     \/ /\ loading' = FALSE
        /\ loadPc' = "failed"
        /\ UNCHANGED <<pdfDoc, numPages, obsPending>>
  /\ InitialScrollEffect
  /\ UNCHANGED <<dbVars, appVars, currentPage, scale, showControls, visible,
                 lastNav, renderTaskRef, pendingRenders, running, canvas>>

\* handlePageVisible: setCurrentPage, and updateLastPage called and not awaited.
HandlePageVisibleDeduped(p) ==
  /\ currentPage' = p
  /\ IF p = currentPage
       THEN UNCHANGED dbQueue
       ELSE /\ Len(dbQueue) < MaxWrites
            /\ dbQueue' = Append(dbQueue,
                 Req("updateLastPage", "reader", currentBook.id, NoBook, p))
HandlePageVisible(p) ==
  /\ Len(dbQueue) < MaxWrites
  /\ currentPage' = p
  /\ dbQueue' = Append(dbQueue,
       Req("updateLastPage", "reader", currentBook.id, NoBook, p))

\* updateLastPage settles; nobody waits for it.
UpdateLastPageSettle ==
  /\ dbQueue # <<>>
  /\ Head(dbQueue).op = "updateLastPage"
  /\ dbQueue' = Tail(dbQueue)
  /\ \/ store' = StoreUpdateLastPage(store, Head(dbQueue).id, Head(dbQueue).page)
     \/ UNCHANGED store
  /\ UNCHANGED <<appVars, readerVars, pageVars>>

(***************************************************************************)
(* PdfPage.renderPage, to its await of getPage: cancel the task the ref    *)
(* holds, then ask for the page.  The call closes over the scale of the    *)
(* render that created it.                                                 *)
(***************************************************************************)
RemoveAt(seq, i) == SubSeq(seq, 1, i - 1) \o SubSeq(seq, i + 1, Len(seq))

\* renderPage calls waiting for getPage and render tasks drawing, all pages.
RECURSIVE InFlightUpTo(_, _, _)
InFlightUpTo(n, pend, run) ==
  IF n = 0 THEN 0
  ELSE Len(pend[n]) + Len(run[n]) + InFlightUpTo(n - 1, pend, run)
InFlight(pend, run) == InFlightUpTo(MaxPages, pend, run)

RenderPageCall(p) ==
  /\ running' = [running EXCEPT ![p] =
                   IF renderTaskRef[p] # 0 THEN RemoveAt(@, renderTaskRef[p]) ELSE @]
  /\ InFlight(pendingRenders, running') < MaxRenders
  /\ renderTaskRef' = [renderTaskRef EXCEPT ![p] = 0]
  /\ pendingRenders' = [pendingRenders EXCEPT ![p] = Append(@, scale)]
  /\ UNCHANGED canvas

\* getPage settles for the oldest waiting call: the canvas is sized for the
\* call's scale (which clears it) and page.render starts a task, kept in the
\* ref.  The rendering library is not part of the sources: when a task is
\* still drawing on the canvas it either lets the two draw together or
\* refuses the new one (its promise rejects, the error is logged).
GetPageSettle(p) ==
  /\ pendingRenders[p] # <<>>
  /\ LET s == Head(pendingRenders[p])
     IN /\ pendingRenders' = [pendingRenders EXCEPT ![p] = Tail(@)]
        /\ canvas' = [canvas EXCEPT ![p] =
                        [size |-> s, drawn |-> IF running[p] = <<>> THEN 0 ELSE Damaged]]
        /\ \/ /\ running' = [running EXCEPT ![p] = Append(@, s)]
              /\ renderTaskRef' = [renderTaskRef EXCEPT ![p] = Len(running[p]) + 1]
           \/ /\ running[p] # <<>>
              /\ renderTaskRef' = [renderTaskRef EXCEPT ![p] = 0]
              /\ UNCHANGED running
  /\ UNCHANGED <<dbVars, appVars, readerVars, obsPending>>

\* A render task finishes drawing.
RenderSettle(p) ==
  \E i \in 1..Len(running[p]) :
    /\ canvas' = [canvas EXCEPT ![p].drawn =
                    IF @ = 0 THEN running[p][i] ELSE Damaged]
    /\ running' = [running EXCEPT ![p] = RemoveAt(@, i)]
    /\ renderTaskRef' = [renderTaskRef EXCEPT ![p] =
                           IF @ = i THEN 0 ELSE IF @ > i THEN @ - 1 ELSE @]
    /\ UNCHANGED <<dbVars, appVars, readerVars, pendingRenders, obsPending>>

(***************************************************************************)
(* PdfPage: the IntersectionObserver effect.  A page's observer reports    *)
(* once after it is created and then at every change of intersection; a    *)
(* report of an intersecting page calls onVisible and renderPage.          *)
(***************************************************************************)
IsInterval(S) == \A a \in S, b \in S : \A c \in a..b : c \in S

ObserverCallbackAnyEntry(p, isIntersecting) ==
  /\ obsPending' = [obsPending EXCEPT ![p] = FALSE]
  /\ HandlePageVisible(p)
  /\ RenderPageCall(p)
  /\ UNCHANGED <<store, appVars, numPages, loading, scale, showControls,
                 pdfDoc, loadPc, lastNav>>
  /\ InitialScrollEffect
ObserverCallback(p, isIntersecting) ==
  /\ obsPending' = [obsPending EXCEPT ![p] = FALSE]
  /\ IF isIntersecting
       THEN /\ HandlePageVisible(p)
            /\ RenderPageCall(p)
       ELSE UNCHANGED <<currentPage, dbQueue, renderTaskRef, pendingRenders,
                        running, canvas>>
  /\ UNCHANGED <<store, appVars, numPages, loading, scale, showControls,
                 pdfDoc, loadPc, lastNav>>
  /\ InitialScrollEffect

\* The first report of a newly created observer.
ObserverInitial(p) ==
  /\ obsPending[p]
  /\ UNCHANGED visible
  /\ ObserverCallback(p, p \in visible)

\* Scrolling or resizing brings a page into the viewport, or takes it out.
PageEnter(p) ==
  /\ PageElExists(p, loading, pdfDoc, numPages)
  /\ p \notin visible
  /\ IsInterval(visible \cup {p})
  /\ visible' = visible \cup {p}
  /\ ObserverCallback(p, TRUE)

PageLeave(p) ==
  /\ p \in visible
  /\ IsInterval(visible \ {p})
  /\ visible' = visible \ {p}
  /\ ObserverCallback(p, FALSE)

(***************************************************************************)
(* PdfReader: zoom.  A changed scale re-renders every page component with  *)
(* a new renderPage, so every page's effect replaces its observer; a       *)
(* setScale to the same value changes nothing.                             *)
(***************************************************************************)
zoomInUnclamped(prev) == prev + ScaleStep
zoomIn(prev) == Min(prev + ScaleStep, ScaleMax)
zoomOut(prev) == Max(prev - ScaleStep, ScaleMin)
resetZoom(prev) == ScaleInit

SetScale(new) ==
  /\ scale' = new
  /\ obsPending' = IF new = scale THEN obsPending
                   ELSE [p \in Pages |-> PageElExists(p, loading, pdfDoc, numPages)]
  /\ UNCHANGED <<dbVars, appVars, numPages, currentPage, loading, showControls,
                 pdfDoc, loadPc, visible, lastNav, renderTaskRef,
                 pendingRenders, running, canvas>>
  /\ InitialScrollEffect

ZoomIn == SetScale(zoomIn(scale))
ZoomOut == SetScale(zoomOut(scale))
ResetZoom == SetScale(resetZoom(scale))

\* The zoom controls used only within MaxZoomSteps steps of the initial scale.
NearInitial(s) ==
  /\ s >= ScaleInit - MaxZoomSteps * ScaleStep
  /\ s <= ScaleInit + MaxZoomSteps * ScaleStep
ZoomInNear == NearInitial(zoomIn(scale)) /\ ZoomIn
ZoomOutNear == NearInitial(zoomOut(scale)) /\ ZoomOut

(***************************************************************************)
(* PdfReader: navigation.  The footer's buttons call scrollToPage; each is *)
(* disabled by its own condition.                                          *)
(***************************************************************************)
ScrollTargetUnclamped(pageNumber, n) == pageNumber
ScrollTarget(pageNumber, n) == Max(1, Min(pageNumber, n))

scrollToPage(pageNumber) ==
  LET target == ScrollTarget(pageNumber, numPages)
      found == PageElExists(target, loading, pdfDoc, numPages)
  IN /\ lastNav' = [target |-> target, found |-> found]
     /\ UNCHANGED <<dbVars, appVars, numPages, currentPage, loading, scale,
                    showControls, pdfDoc, initialScrollDone, loadPc, visible,
                    initialScrollPage, initialScrolls, pageVars>>

PrevDisabled == currentPage <= 1
NextDisabled == currentPage >= numPages

PrevClick == ~PrevDisabled /\ scrollToPage(currentPage - 1)
NextClick == ~NextDisabled /\ scrollToPage(currentPage + 1)

(***************************************************************************)
(* PdfReader: toggleControls, the click handler of the scroll container.   *)
(* A click reaches it from the container itself, from a page (inside a     *)
(* .pdf-page-container) or from the other content of the container (the    *)
(* wrapper around the pages, the loading indicator).  The header and the   *)
(* footer are outside the container: a click on a control never reaches it.*)
(***************************************************************************)
TapTargets == {"container", "page", "content"}

TogglesControlsAnywhere(target) == TRUE
TogglesControls(target) == target = "container" \/ target = "page"

toggleControls(target) ==
  /\ target = "page" => \E p \in Pages : PageElExists(p, loading, pdfDoc, numPages)
  /\ showControls' = IF TogglesControls(target) THEN ~showControls ELSE showControls
  /\ UNCHANGED <<dbVars, appVars, numPages, currentPage, loading, scale, pdfDoc,
                 loadPc, visible, lastNav, pageVars>>
  /\ InitialScrollEffect

(***************************************************************************)
(* The Reader View: a book of the library just opened, loadPdf in flight.  *)
(* A record's lastPage is a page of its document: only the Reader writes   *)
(* it, with the number of a page it shows.                                 *)
(***************************************************************************)
OpenedBooks ==
  { Book(1, <<"A", "b">>, <<"A", "b", ".", "a">>, n, Undef, l, 0, Undef, FALSE) :
      n \in 1..MaxPages, l \in 1..MaxPages }

InitReader ==
  /\ \E b \in {x \in OpenedBooks : x.lastPage <= x.blob} :
       /\ store = {b} /\ books = <<b>> /\ currentBook = b
       /\ currentPage = InitialPage(b)
  /\ dbQueue = <<>>
  /\ isUploading = FALSE /\ searchQuery = <<>> /\ showOnlyMarked = FALSE
  /\ up = IdleUp /\ issued = {1} /\ clock = 0 /\ alertLog = <<>>
  /\ saveCalls = 0
  /\ numPages = 0 /\ loading = TRUE /\ scale = ScaleInit
  /\ showControls = TRUE /\ pdfDoc = FALSE /\ initialScrollDone = FALSE
  /\ loadPc = "pending" /\ visible = {}
  /\ initialScrollPage = 0 /\ initialScrolls = 0 /\ lastNav = NoNav
  /\ renderTaskRef = [p \in Pages |-> 0]
  /\ pendingRenders = [p \in Pages |-> <<>>]
  /\ running = [p \in Pages |-> <<>>]
  /\ canvas = [p \in Pages |-> BlankCanvas]
  /\ obsPending = [p \in Pages |-> FALSE]

\* The whole Reader, without the zoom controls.
NextReader ==
  \/ LoadPdfSettle
  \/ \E p \in Pages : ObserverInitial(p)
  \/ \E p \in Pages : PageEnter(p)
  \/ \E p \in Pages : PageLeave(p)
  \/ \E p \in Pages : GetPageSettle(p)
  \/ \E p \in Pages : RenderSettle(p)
  \/ UpdateLastPageSettle
  \/ PrevClick
  \/ NextClick
  \/ \E target \in TapTargets : toggleControls(target)

SpecReader == InitReader /\ [][NextReader]_vars

\* Every operation of the Reader, with pages reporting one at a time: a
\* page reports when no store write and no render is in flight.
Calm == dbQueue = <<>> /\ InFlight(pendingRenders, running) = 0

NextControls ==
  \/ LoadPdfSettle
  \/ \E p \in Pages : Calm /\ ObserverInitial(p)
  \/ \E p \in Pages : Calm /\ PageEnter(p)
  \/ \E p \in Pages : PageLeave(p)
  \/ \E p \in Pages : GetPageSettle(p)
  \/ \E p \in Pages : RenderSettle(p)
  \/ UpdateLastPageSettle
  \/ ZoomInNear
  \/ ZoomOutNear
  \/ ResetZoom
  \/ PrevClick
  \/ NextClick
  \/ \E target \in TapTargets : toggleControls(target)

SpecControls == InitReader /\ [][NextControls]_vars

\* Navigation and taps, with pages reporting one at a time and no zoom.
NextNav ==
  \/ LoadPdfSettle
  \/ \E p \in Pages : Calm /\ ObserverInitial(p)
  \/ \E p \in Pages : Calm /\ PageEnter(p)
  \/ \E p \in Pages : PageLeave(p)
  \/ \E p \in Pages : GetPageSettle(p)
  \/ \E p \in Pages : RenderSettle(p)
  \/ UpdateLastPageSettle
  \/ PrevClick
  \/ NextClick
  \/ \E target \in TapTargets : toggleControls(target)

SpecNav == InitReader /\ [][NextNav]_vars

\* The zoom controls over their whole range, while no page is in the viewport.
NextZoom ==
  \/ LoadPdfSettle
  \/ \E p \in Pages : ObserverInitial(p)
  \/ ZoomIn
  \/ ZoomOut
  \/ ResetZoom
  \/ PrevClick
  \/ NextClick
  \/ \E target \in TapTargets : toggleControls(target)

SpecZoom == InitReader /\ [][NextZoom]_vars

\* One page of a one-page document: its visibility, the zoom controls near
\* the initial scale, and every step of its renders.
InitRender == InitReader /\ currentBook.blob = 1

NextRender ==
  \/ LoadPdfSettle
  \/ \E p \in Pages : ObserverInitial(p)
  \/ \E p \in Pages : PageEnter(p)
  \/ \E p \in Pages : PageLeave(p)
  \/ \E p \in Pages : GetPageSettle(p)
  \/ \E p \in Pages : RenderSettle(p)
  \/ UpdateLastPageSettle
  \/ ZoomInNear
  \/ ZoomOutNear
  \/ ResetZoom

SpecRender == InitRender /\ [][NextRender]_vars

(***************************************************************************)
(* App: opening a book from its card and closing the Reader.  Closing      *)
(* unmounts the Reader (its observers disconnect, its state is dropped;    *)
(* what the renderPage calls still in progress do afterwards changes       *)
(* nothing) and calls loadLibrary.  The progress writes already issued     *)
(* stay in flight.  The model keeps currentPage while no book is open, as  *)
(* the page of the session's last report.                                  *)
(***************************************************************************)
ReaderUnmounted ==
  /\ numPages' = 0 /\ loading' = TRUE /\ scale' = ScaleInit
  /\ showControls' = TRUE /\ pdfDoc' = FALSE /\ initialScrollDone' = FALSE
  /\ loadPc' = "closed" /\ visible' = {}
  /\ initialScrollPage' = 0 /\ initialScrolls' = 0 /\ lastNav' = NoNav
  /\ renderTaskRef' = [p \in Pages |-> 0]
  /\ pendingRenders' = [p \in Pages |-> <<>>]
  /\ running' = [p \in Pages |-> <<>>]
  /\ canvas' = [p \in Pages |-> BlankCanvas]
  /\ obsPending' = [p \in Pages |-> FALSE]

CloseReaderNoReload ==
  /\ currentBook # NoBook
  /\ currentBook' = NoBook
  /\ ReaderUnmounted
  /\ UNCHANGED <<dbVars, books, isUploading, searchQuery, showOnlyMarked, up,
                 issued, clock, alertLog, saveCalls, currentPage>>
CloseReader ==
  /\ currentBook # NoBook
  /\ Len(dbQueue) < MaxQueue
  /\ currentBook' = NoBook
  /\ dbQueue' = LoadLibraryCall(dbQueue, "close")
  /\ ReaderUnmounted
  /\ UNCHANGED <<store, books, isUploading, searchQuery, showOnlyMarked, up,
                 issued, clock, alertLog, saveCalls, currentPage>>

\* A click on a card: the Reader mounts with the list's copy of the record.
OpenBook ==
  /\ currentBook = NoBook
  /\ \E b \in Range(filteredBooks) :
       /\ currentBook' = b
       /\ currentPage' = InitialPage(b)
  /\ loadPc' = "pending"
  /\ UNCHANGED <<dbVars, books, isUploading, searchQuery, showOnlyMarked, up,
                 issued, clock, alertLog, saveCalls, numPages, loading, scale,
                 showControls, pdfDoc, initialScrollDone, visible,
                 initialScrollPage, initialScrolls, lastNav, pageVars>>

\* A page has reported itself visible in this session: its render was asked for.
SessionReported ==
  \E p \in Pages : pendingRenders[p] # <<>> \/ canvas[p].size # 0

\* Reading sessions of one book: opened, read, closed after a page was
\* shown, opened again.
NextSession ==
  \/ LoadPdfSettle
  \/ \E p \in Pages : ObserverInitial(p)
  \/ \E p \in Pages : PageEnter(p)
  \/ \E p \in Pages : PageLeave(p)
  \/ \E p \in Pages : GetPageSettle(p)
  \/ \E p \in Pages : RenderSettle(p)
  \/ UpdateLastPageSettle
  \/ SessionReported /\ CloseReader
  \/ GetAllBooksSettle
  \/ OpenBook

SpecSession == InitReader /\ [][NextSession]_vars

(***************************************************************************)
(* The filter of the Library View over every list, query and setting: the  *)
(* search box, edited a character at a time, and the marked-only button.   *)
(***************************************************************************)
SetSearchQuery(q) ==
  /\ searchQuery' = q
  /\ UNCHANGED <<dbVars, books, currentBook, isUploading, showOnlyMarked, up,
                 issued, clock, alertLog, saveCalls, readerVars, pageVars>>

ToggleShowOnlyMarked ==
  /\ showOnlyMarked' = ~showOnlyMarked
  /\ UNCHANGED <<dbVars, books, currentBook, isUploading, searchQuery, up,
                 issued, clock, alertLog, saveCalls, readerVars, pageVars>>

Titles == SeqsUpTo(Letters, MaxTitleLen)
Queries == SeqsUpTo(Letters, MaxQueryLen)

\* Lists of up to MaxBooks records, any titles and flags, distinct identifiers.
BookLists ==
  UNION { { [i \in 1..k |-> Book(i, t[i], t[i] \o <<".", "a">>, 1, Undef, 1, 0,
                                 Undef, m[i])] :
              t \in [1..k -> Titles], m \in [1..k -> BOOLEAN] } :
          k \in 0..MaxBooks }

InitFilter ==
  /\ books \in BookLists
  /\ store = Range(books)
  /\ searchQuery \in Queries
  /\ showOnlyMarked \in BOOLEAN
  /\ dbQueue = <<>> /\ currentBook = NoBook /\ isUploading = FALSE
  /\ up = IdleUp /\ issued = {b.id : b \in Range(books)} /\ clock = 0
  /\ alertLog = <<>> /\ saveCalls = 0
  /\ ReaderClosed

TypeCharacter ==
  /\ Len(searchQuery) < MaxQueryLen
  /\ \E ch \in Letters : SetSearchQuery(Append(searchQuery, ch))

EraseCharacter ==
  /\ searchQuery # <<>>
  /\ SetSearchQuery(SubSeq(searchQuery, 1, Len(searchQuery) - 1))

NextFilter ==
  \/ TypeCharacter
  \/ EraseCharacter
  \/ ToggleShowOnlyMarked

SpecFilter == InitFilter /\ [][NextFilter]_vars

(***************************************************************************)
(* Properties.                                                             *)
(***************************************************************************)

\* A page's renders have settled: no renderPage call waits for getPage and
\* no task draws.
RendersSettled(p) == pendingRenders[p] = <<>> /\ running[p] = <<>>

\* C1: for a visible page, under every interleaving of scale changes and
\* viewport entries with the steps of renderPage, two render tasks never
\* draw on the page's canvas at the same time, and once all renders have
\* settled the canvas shows the page at the most recently requested scale
\* (the scale the canvas was last sized for, getPage answering in order).
C1_OneRenderPerCanvas ==
  \A p \in Pages :
    /\ Len(running[p]) <= 1
    /\ (RendersSettled(p) /\ canvas[p].size # 0) => canvas[p].drawn = canvas[p].size

\* C2: the zoom scale starts at 1.0 and stays in [0.4, 3.0] under every
\* sequence of zoomIn, zoomOut and resetZoom; a step changes it by +0.2,
\* by -0.2 or to 1.0, zoomIn at 3.0 leaves 3.0 and zoomOut at 0.4 leaves 0.4.
C2_ScaleStep ==
  /\ scale' # scale =>
       \/ scale' = scale + ScaleStep
       \/ scale' = scale - ScaleStep
       \/ scale' = ScaleInit
  /\ (scale = ScaleMax /\ ZoomIn) => scale' = ScaleMax
  /\ (scale = ScaleMin /\ ZoomOut) => scale' = ScaleMin
  /\ (scale < ScaleMax /\ ZoomIn) => scale' > scale
  /\ (scale > ScaleMin /\ ZoomOut) => scale' < scale
C2_ScaleInRange ==
  /\ scale = ScaleInit
  /\ [](scale >= ScaleMin /\ scale <= ScaleMax)
  /\ [][C2_ScaleStep]_vars
\* The scale has been zoomed to the upper end of the range.
C2_AtUpperBound == scale = ScaleMax /\ loadPc = "done"

\* Names of the files that are PDFs.
PdfNames == {f.name : f \in {g \in Files : g.type = PdfMime}}

\* C3: a selected file whose MIME type is not application/pdf is rejected
\* with an alert and creates no record: the step that handles it raises the
\* alert, calls no saveBook, issues no store request, leaves the store and
\* the book list unchanged and leaves isUploading false; no upload is ever
\* in progress for such a file and no record of one is ever stored.
C3_NoRecordOfNonPdf ==
  /\ \A r \in store : r.fileName \in PdfNames
  /\ isUploading => up.file.type = PdfMime
C3_RejectStep ==
  \A f \in Files :
    (f.type # PdfMime /\ (UploadReject(f) \/ UploadStart(f))) =>
      /\ alertLog' = Append(alertLog, "invalid")
      /\ ~isUploading /\ ~isUploading'
      /\ UNCHANGED <<store, dbQueue, books, saveCalls, up>>
C3_NonPdfRejected == []C3_NoRecordOfNonPdf /\ [][C3_RejectStep]_vars
\* A non-PDF was rejected: alerted, and nothing saved or in progress.
C3_Rejected ==
  /\ alertLog = <<"invalid">>
  /\ saveCalls = 0 /\ store = {} /\ ~isUploading

\* The step in which an upload's saveBook settles with success.
SaveSucceeds == up.pc = "saving" /\ up'.pc = "reload"

\* C4: a successful upload persists exactly one new record, whose identifier
\* differs from that of every record already stored, with lastPage 1,
\* isMarked false and addedAt read during the upload; only such a step adds
\* a record, an upload calls saveBook at most once, and no two stored
\* records share an identifier.
C4_IdsUnique ==
  /\ \A r1 \in store, r2 \in store : r1.id = r2.id => r1 = r2
  /\ saveCalls <= Cardinality(issued)
C4_SaveStep ==
  /\ SaveSucceeds =>
       LET nb == up.newBook
       IN /\ nb.id = up.id
          /\ nb.id \notin {r.id : r \in store}
          /\ store' = store \cup {nb}
          /\ Cardinality(store') = Cardinality(store) + 1
          /\ nb.lastPage = 1
          /\ nb.isMarked = FALSE
          /\ nb.addedAt >= up.startedAt /\ nb.addedAt <= clock
  /\ Cardinality(store') > Cardinality(store) => SaveSucceeds
UploadEnds == isUploading /\ ~isUploading'
Listed(list, id) == \E i \in 1..Len(list) : list[i].id = id
Stored(s, id) == \E r \in s : r.id = id

\* C5 as stated: an upload results in a persisted, listed record if and
\* only if saveBook succeeds.
C5_ListedIffSaved ==
  [][UploadEnds =>
       ((up.pc = "reload") <=> (Stored(store', up.id) /\ Listed(books', up.id)))]_vars

\* C5: an upload of a PDF results in a persisted record if and only if
\* saveBook succeeds, and the record is listed when the reload that follows
\* also reads the store; every combination of thumbnail, extraction and
\* summary failures still calls saveBook, with the failed fields absent, and
\* a success is followed by a list reload; a saveBook failure ends the
\* upload with an alert and no record; isUploading is true exactly while an
\* upload is in progress, so it is false once the upload has ended.
C5_InProgress ==
  /\ isUploading <=> up.pc # "idle"
  /\ up.pc \in {"saving", "reload"} =>
       /\ up.newBook.thumbnail = (IF up.thumbOk THEN "img" ELSE Undef)
       /\ up.newBook.summary = (IF up.summaryOk THEN "sum" ELSE Undef)
  /\ up.pc = "saving" =>
       /\ ~Stored(store, up.id)
       /\ \E i \in 1..Len(dbQueue) :
            dbQueue[i] = Req("save", "upload", up.id, up.newBook, 0)
  /\ up.pc = "reload" =>
       \E i \in 1..Len(dbQueue) : dbQueue[i] = Req("getAll", "upload", NoId, NoBook, 0)
C5_Steps ==
  /\ UploadEnds =>
       /\ up.pc \in {"saving", "reload"}
       /\ up.pc = "saving" =>
            /\ alertLog' = Append(alertLog, "failed")
            /\ ~Stored(store', up.id)
            /\ UNCHANGED <<store, books>>
       /\ up.pc = "reload" =>
            /\ UNCHANGED <<store, alertLog>>
            /\ books' = StoreGetAll(store) \/ books' = books
            /\ books' = StoreGetAll(store) =>
                 (Listed(books', up.id) <=> Stored(store, up.id))
  /\ SaveSucceeds => up.newBook \in store' /\ isUploading'
  /\ (up.pc \in {"thumbnail", "extract", "summary"} /\ up'.pc # up.pc) =>
       up'.pc \in {"extract", "summary", "saving"}
C5_UploadOutcome == []C5_InProgress /\ [][C5_Steps]_vars
\* An upload whose thumbnail and summary both failed has ended with its
\* record stored and listed.
C5_BareRecordListed ==
  /\ ~isUploading
  /\ \E i \in 1..Len(books) :
       /\ books[i].thumbnail = Undef /\ books[i].summary = Undef
       /\ books[i] \in store

\* An observer reports page p as intersecting: p comes into the viewport,
\* or a newly created observer makes its first report while p is in it.
VisibleReport(p) ==
  \/ p \notin visible /\ visible' = visible \cup {p}
  \/ p \in visible /\ visible' = visible /\ obsPending[p] /\ ~obsPending'[p]
LastPageWrite(p) == Req("updateLastPage", "reader", currentBook.id, NoBook, p)

\* C6: every time a page p is reported visible, in that same step p becomes
\* the current page and exactly one write of lastPage = p for the open book
\* is issued, whatever writes and renders are still in flight; nothing else
\* issues or withdraws a write, and a write leaves the queue only by settling.
C6_WriteStep ==
  /\ \A p \in Pages :
       VisibleReport(p) =>
         /\ currentPage' = p
         /\ dbQueue' = Append(dbQueue, LastPageWrite(p))
  /\ Len(dbQueue') > Len(dbQueue) => \E p \in Pages : VisibleReport(p)
  /\ currentPage' # currentPage => \E p \in Pages : VisibleReport(p)
C6_WriteOnEveryPageChange == [][C6_WriteStep]_vars
\* Two page changes in a row, the same page twice: both writes are in flight
\* with the first one unsettled and the page's render not complete.
C6_TwoWritesInFlight ==
  /\ Len(dbQueue) = 2
  /\ dbQueue[1] = LastPageWrite(2) /\ dbQueue[2] = LastPageWrite(2)
  /\ currentPage = 2
  /\ ~RendersSettled(2)

\* Page numbers a caller may pass to scrollToPage.
NavRequests == (0 - 1)..(MaxPages + 2)
NavStep == PrevClick \/ NextClick

\* C7: the previous control acts only when currentPage > 1 and the next
\* control only when currentPage < pageCount; for every requested page
\* number scrollToPage's target is the request clamped to [1, pageCount]
\* (pageCount at least 1: before the document has loaded there is no page
\* element and nothing is scrolled); a navigation scrolls only to a page of
\* the document and leaves the current page as it is.
C7_Clamp ==
  /\ numPages >= 1 =>
       \A r \in NavRequests :
         /\ ScrollTarget(r, numPages) \in 1..numPages
         /\ r \in 1..numPages => ScrollTarget(r, numPages) = r
         /\ r < 1 => ScrollTarget(r, numPages) = 1
         /\ r > numPages => ScrollTarget(r, numPages) = numPages
  /\ lastNav.found => lastNav.target \in 1..numPages
C7_NavStep ==
  /\ PrevClick => currentPage > 1 /\ lastNav'.target <= Max(1, currentPage - 1)
  /\ NextClick => currentPage < numPages /\ lastNav'.target = currentPage + 1
  /\ NavStep =>
       /\ currentPage' = currentPage
       /\ numPages >= 1 => lastNav'.target \in 1..numPages
       /\ lastNav'.found <=> (~loading /\ pdfDoc /\ lastNav'.target \in 1..numPages)
  /\ lastNav' # lastNav => NavStep
C7_NavigationClamped == []C7_Clamp /\ [][C7_NavStep]_vars
\* On the last page, where the next control is disabled, the previous
\* control has scrolled to the page before it.
C7_NavigatedBack ==
  /\ numPages = MaxPages /\ currentPage = numPages
  /\ lastNav = [target |-> numPages - 1, found |-> TRUE]

\* C8: opening a book whose record has lastPage = N scrolls to page N when
\* the document has loaded, in the step that loads it; no scroll is made
\* before or without the load, and no later step (zoom, visibility,
\* navigation, tap) makes the initial scroll again.
C8_Scrolled ==
  /\ initialScrolls <= 1
  /\ loadPc = "done" =>
       /\ initialScrolls = 1
       /\ initialScrollDone
       /\ initialScrollPage = currentBook.lastPage
  /\ loadPc # "done" => initialScrolls = 0 /\ ~initialScrollDone
C8_ScrollStep ==
  (initialScrolls' # initialScrolls \/ initialScrollPage' # initialScrollPage) =>
    loadPc = "pending" /\ loadPc' = "done"
C8_InitialScrollOnce == []C8_Scrolled /\ [][C8_ScrollStep]_vars
\* The book was opened at page 2; since then the scale was changed and page
\* 1 became the current page, and the one initial scroll is still to page 2.
C8_ScrolledOnceToLastPage ==
  /\ initialScrolls = 1 /\ initialScrollPage = 2
  /\ scale # ScaleInit /\ currentPage = 1 /\ visible # {}

C9_TapStep ==
  /\ showControls' # showControls =>
       \E t \in {"container", "page"} : toggleControls(t)
  /\ \A t \in {"container", "page"} :
       toggleControls(t) => showControls' = ~showControls
  /\ toggleControls("content") => showControls' = showControls
  /\ \A t \in TapTargets :
       toggleControls(t) =>
         UNCHANGED <<dbVars, appVars, numPages, currentPage, loading, scale,
                     pdfDoc, initialScrollDone, loadPc, visible,
                     initialScrollPage, initialScrolls, lastNav, pageVars>>
SameLetter(c, d) == c = d \/ {c, d} = {"a", "A"}
ContainsIgnoringCase(str, sub) ==
  \E i \in 0..(Len(str) - Len(sub)) :
    \A j \in 1..Len(sub) : SameLetter(str[i + j], sub[j])
Displayed(b) ==
  /\ ContainsIgnoringCase(b.title, searchQuery)
  /\ showOnlyMarked => b.isMarked

\* C10: for every list, query and marked-only setting the displayed list
\* holds exactly the books whose title contains the query as a
\* case-insensitive substring and, with marked-only on, whose flag is set,
\* in the order of the list; with an empty query and marked-only off it is
\* the whole list.
C10_FilterExact ==
  /\ Range(filteredBooks) = {b \in Range(books) : Displayed(b)}
  /\ filteredBooks = SelectSeq(books, Displayed)
  /\ (searchQuery = <<>> /\ ~showOnlyMarked) => filteredBooks = books
\* A marked book is displayed for a query that matches its title only when
\* case is ignored, with marked-only on.
C10_MatchIgnoringCase ==
  /\ showOnlyMarked /\ searchQuery = <<"a">>
  /\ \E b \in Range(filteredBooks) : b.title = <<"b", "A">>

\* A renderPage call is made for page p; the first report of p's observer.
RenderStarted(p) == Len(pendingRenders'[p]) > Len(pendingRenders[p])
FirstReport(p) == obsPending[p] /\ ~obsPending'[p] /\ visible' = visible

\* C11: the step that changes the scale starts no render and touches no
\* canvas; the renders that follow it are started by the pages' observers,
\* only for a page that is intersecting the viewport at that moment and at
\* the scale current then; a page that is not visible gets none from its
\* observer's first report, and gets one at the current scale in the step
\* in which it enters the viewport.  With pages reporting one at a time a
\* settled canvas shows a complete render at the scale it was sized for.
C11_Rendered ==
  \A p \in Pages :
    (RendersSettled(p) /\ canvas[p].size # 0) => canvas[p].drawn = canvas[p].size
C11_RenderStep ==
  /\ scale' # scale =>
       /\ UNCHANGED <<pendingRenders, running, canvas, renderTaskRef>>
       /\ \A p \in Pages : obsPending'[p] <=> PageElExists(p, loading, pdfDoc, numPages)
  /\ \A p \in Pages :
       /\ RenderStarted(p) =>
            /\ p \in visible'
            /\ scale' = scale
            /\ pendingRenders'[p] = Append(pendingRenders[p], scale)
       /\ (FirstReport(p) /\ p \notin visible) =>
            /\ pendingRenders'[p] = pendingRenders[p]
            /\ running'[p] = running[p] /\ canvas'[p] = canvas[p]
       /\ (FirstReport(p) /\ p \in visible) => RenderStarted(p)
       /\ (p \notin visible /\ p \in visible') => RenderStarted(p)
C12_CurrentPageVisible ==
  (loadPc = "done" /\ visible # {} /\ \A p \in visible : ~obsPending[p]) =>
    currentPage \in visible

\* The reload a close asked for has completed.
CloseReloadDone ==
  /\ loadPc = "closed"
  /\ \A i \in 1..Len(dbQueue) : dbQueue[i].from # "close"
IsWrite(r) == r.op = "updateLastPage"

C13_Queue ==
  /\ loadPc = "closed" =>
       \A i \in 1..Len(dbQueue) :
         IsWrite(dbQueue[i]) =>
           /\ \E j \in (i+1)..Len(dbQueue) : dbQueue[j].from = "close"
           /\ (\A j \in (i+1)..Len(dbQueue) : ~IsWrite(dbQueue[j])) =>
                dbQueue[i].page = currentPage
  /\ CloseReloadDone => dbQueue = <<>>
C13_Steps ==
  /\ (loadPc # "closed" /\ loadPc' = "closed") =>
       /\ dbQueue' = Append(dbQueue, Req("getAll", "close", NoId, NoBook, 0))
       /\ currentBook' = NoBook
       /\ UNCHANGED <<store, books, currentPage>>
  /\ (dbQueue # <<>> /\ dbQueue' = Tail(dbQueue) /\ IsWrite(Head(dbQueue))) =>
       /\ books' = books
       /\ \/ store' = store
          \/ \A r \in store' : r.id = Head(dbQueue).id => r.lastPage = Head(dbQueue).page
  /\ (dbQueue # <<>> /\ dbQueue' = Tail(dbQueue) /\ Head(dbQueue).from = "close") =>
       /\ store' = store
       /\ \/ books' = books
          \/ /\ Range(books') = store
             /\ (\A r \in store : r.lastPage = currentPage) =>
                  \A i \in 1..Len(books') : books'[i].lastPage = currentPage
  /\ (loadPc = "closed" /\ loadPc' # "closed") =>
       /\ currentBook' \in Range(books)
       /\ currentPage' = currentBook'.lastPage
       /\ UNCHANGED <<store, books, dbQueue>>
=============================================================================
